---- MODULE Spec2Model ----
(***************************************************************************)
(* One render pass of the advertising dashboard script (src/app.py).       *)
(* The script runs top to bottom: load_data, the Tier 4 and Tier 5 tabs    *)
(* (campaign_analysis), the time-series tab (weekly aggregate and ARIMA    *)
(* forecast) and the insights tab.  An exception that no handler catches   *)
(* ends the pass: nothing after the raising statement is rendered.         *)
(*                                                                         *)
(* Numbers are float64 values of pandas, modelled exactly as records       *)
(*   [k |-> "num", n, d]   the rational n/d (d > 0, lowest terms)          *)
(*   [k |-> "nan", ...]    the missing value NaN                           *)
(*   [k |-> "inf", n, ...] +infinity (n = 1) or -infinity (n = -1)         *)
(* A group label is modelled by its rank in the sort order of the labels   *)
(* (groupby sorts its keys); NoKey is a missing label (NaN / NaT).         *)
(***************************************************************************)
EXTENDS Integers, Sequences, FiniteSets, TLC

VARIABLES pc, csv, df, tier4_data, tier4_corr, tier4_table,
          tier5_data, tier5_corr, tier5_table, time_df, roas_series,
          forecast, insights, rendered, error

vars == <<pc, csv, df, tier4_data, tier4_corr, tier4_table,
          tier5_data, tier5_corr, tier5_table, time_df, roas_series,
          forecast, insights, rendered, error>>

\* Largest number of data rows of the input file.
MaxRows == 2

\* results.forecast(steps=4)
ForecastSteps == 4

\* ------------------------------------------------------ float64 values

NaN == [k |-> "nan", n |-> 0, d |-> 1]

PosInf == [k |-> "inf", n |-> 1, d |-> 1]

NegInf == [k |-> "inf", n |-> -1, d |-> 1]

Abs(i) == IF i < 0 THEN -i ELSE i

RECURSIVE GCD(_, _)
GCD(a, b) == IF b = 0 THEN a ELSE GCD(b, a % b)

\* The rational n/d in lowest terms, d # 0.
Frac(n, d) ==
    LET g == GCD(Abs(n), Abs(d))
        s == IF d < 0 THEN -1 ELSE 1
    IN  [k |-> "num", n |-> (s * n) \div g, d |-> (s * d) \div g]

Num(i) == [k |-> "num", n |-> i, d |-> 1]

IsNaN(x) == x.k = "nan"

\* numpy.isfinite: neither NaN nor an infinity.
IsFinite(x) == x.k = "num"

\* x + y of two floats (the model never adds infinities of opposite sign).
Add(x, y) ==
    IF IsNaN(x) \/ IsNaN(y) THEN NaN
    ELSE IF ~IsFinite(x) THEN x
    ELSE IF ~IsFinite(y) THEN y
    ELSE Frac(x.n * y.d + y.n * x.d, x.d * y.d)

Sign(x) == IF x.n > 0 THEN 1 ELSE IF x.n < 0 THEN -1 ELSE 0

\* x * y of two floats: NaN propagates, 0 * inf is NaN.
Mul(x, y) ==
    IF IsNaN(x) \/ IsNaN(y) THEN NaN
    ELSE IF IsFinite(x) /\ IsFinite(y) THEN Frac(x.n * y.n, x.d * y.d)
    ELSE IF Sign(x) * Sign(y) = 0 THEN NaN
    ELSE IF Sign(x) * Sign(y) > 0 THEN PosInf ELSE NegInf

\* x / y of two float64 columns: a zero divisor gives an infinity, 0/0 NaN.
Div(x, y) ==
    IF IsNaN(x) \/ IsNaN(y) THEN NaN
    ELSE IF IsFinite(x) /\ IsFinite(y) THEN
        IF y.n # 0 THEN Frac(x.n * y.d, x.d * y.n)
        ELSE IF x.n = 0 THEN NaN
        ELSE IF x.n > 0 THEN PosInf ELSE NegInf
    ELSE IF IsFinite(x) THEN Num(0)
    ELSE IF IsFinite(y) THEN (IF Sign(x) * (IF y.n < 0 THEN -1 ELSE 1) > 0
                              THEN PosInf ELSE NegInf)
    ELSE NaN

\* x > y of two floats: FALSE when either is NaN.
Gt(x, y) ==
    IF IsNaN(x) \/ IsNaN(y) THEN FALSE
    ELSE IF IsFinite(x) /\ IsFinite(y) THEN x.n * y.d > y.n * x.d
    ELSE IF ~IsFinite(x) /\ ~IsFinite(y) THEN x.n > y.n
    ELSE IF ~IsFinite(x) THEN x.n > 0
    ELSE y.n < 0

\* ------------------------------------------------------ the input file

NoKey == 0

\* Text of a numeric cell: a number, or a placeholder that is no number.
DigitValue == [s \in {"0", "1", "2"} |-> CASE s = "0" -> 0 [] s = "1" -> 1 [] s = "2" -> 2]

\* Key cells of a row: the Week label split at '-' (<<start, end>>, or <<>>
\* for an empty cell), the Tier 4 label and the Tier 5 label.
KeyPatterns ==
    { [Week |-> <<1, 2>>, Tier4 |-> 1,     Tier5 |-> 1],
      [Week |-> <<2, 3>>, Tier4 |-> 2,     Tier5 |-> 1],
      [Week |-> <<2, 3>>, Tier4 |-> 1,     Tier5 |-> NoKey],
      [Week |-> << >>,    Tier4 |-> NoKey, Tier5 |-> 2] }

\* Numeric cells of a row.
ValuePatterns ==
    { [Spend |-> "1",   RBConv |-> "1",   RBCPO |-> "1",   AOV |-> "1",   ROAS |-> "1"],
      [Spend |-> "2",   RBConv |-> "1",   RBCPO |-> "2",   AOV |-> "2",   ROAS |-> "2"],
      [Spend |-> "1",   RBConv |-> "0",   RBCPO |-> "n/a", AOV |-> "1",   ROAS |-> "2"],
      [Spend |-> "0",   RBConv |-> "0",   RBCPO |-> "n/a", AOV |-> "n/a", ROAS |-> "n/a"],
      [Spend |-> "n/a", RBConv |-> "n/a", RBCPO |-> "1",   AOV |-> "1",   ROAS |-> "1"] }

CsvRows ==
    { [Week |-> key.Week, Tier4 |-> key.Tier4, Tier5 |-> key.Tier5,
       Spend |-> v.Spend, RBConv |-> v.RBConv, RBCPO |-> v.RBCPO,
       AOV |-> v.AOV, ROAS |-> v.ROAS] : key \in KeyPatterns, v \in ValuePatterns }

CsvFiles == UNION { [1..n -> CsvRows] : n \in 0..MaxRows }

\* ---------------------------------------------------------- load_data

\* pd.to_numeric(errors='coerce') of one cell.
ToNumeric(s) == IF s \in DOMAIN DigitValue THEN Num(DigitValue[s]) ELSE NaN

\* pd.to_datetime(Week.str.split('-').str[0]) of one cell.
WeekStart(parts) == IF Len(parts) = 0 THEN NoKey ELSE parts[1]

ParseRow(r) ==
    [Week |-> WeekStart(r.Week), Tier4 |-> r.Tier4, Tier5 |-> r.Tier5,
     Spend |-> ToNumeric(r.Spend), RBConv |-> ToNumeric(r.RBConv),
     RBCPO |-> ToNumeric(r.RBCPO), AOV |-> ToNumeric(r.AOV),
     ROAS |-> ToNumeric(r.ROAS)]

load_data(file) == [i \in 1..Len(file) |-> ParseRow(file[i])]

\* ----------------------------------------------------- groupby(...).agg

\* Sum of a column, NaN skipped (min_count = 0: the sum of no value is 0).
RECURSIVE SumFrom(_, _, _)
SumFrom(rows, col, i) ==
    IF i > Len(rows) THEN Num(0)
    ELSE LET rest == SumFrom(rows, col, i + 1)
         IN  IF IsNaN(rows[i][col]) THEN rest ELSE Add(rows[i][col], rest)

AggSum(rows, col) == SumFrom(rows, col, 1)

Count(rows, col) == Cardinality({i \in 1..Len(rows) : ~IsNaN(rows[i][col])})

\* Mean of a column over its non-NaN values; NaN when there is none.
AggMean(rows, col) ==
    IF Count(rows, col) = 0 THEN NaN
    ELSE Div(AggSum(rows, col), Num(Count(rows, col)))

\* The keys of the groups: rows with a missing key belong to no group.
GroupKeys(frame, by) == {frame[i][by] : i \in 1..Len(frame)} \ {NoKey}

RECURSIVE SortedSeq(_)
SortedSeq(S) ==
    IF S = {} THEN << >>
    ELSE LET m == CHOOSE x \in S : \A y \in S : x <= y
         IN  <<m>> \o SortedSeq(S \ {m})

RowsOf(frame, by, key) == SelectSeq(frame, LAMBDA r : r[by] = key)

AggRow(frame, by, key) ==
    LET rows == RowsOf(frame, by, key)
    IN  [key   |-> key,
         Spend |-> AggSum(rows, "Spend"),
         RBConv |-> AggSum(rows, "RBConv"),
         RBCPO |-> AggMean(rows, "RBCPO"),
         AOV   |-> AggMean(rows, "AOV"),
         ROAS  |-> AggMean(rows, "ROAS")]

\* df.groupby(by).agg({...}).reset_index(): one row per key, keys ascending.
GroupAgg(frame, by) ==
    LET keys == SortedSeq(GroupKeys(frame, by))
    IN  [i \in 1..Len(keys) |-> AggRow(frame, by, keys[i])]

\* ------------------------------------------------- campaign_analysis

\* campaign_data['CPA'] = Spend / RB Conv; campaign_data['Revenue'] = Spend * ROAS
DerivedMetrics(g) ==
    [key |-> g.key, Spend |-> g.Spend, RBConv |-> g.RBConv, RBCPO |-> g.RBCPO,
     AOV |-> g.AOV, ROAS |-> g.ROAS,
     CPA |-> Div(g.Spend, g.RBConv),
     Revenue |-> Mul(g.Spend, g.ROAS)]

CampaignData(frame, by) ==
    LET agg == GroupAgg(frame, by)
    IN  [i \in 1..Len(agg) |-> DerivedMetrics(agg[i])]

\* Row j stands before row i in sort_values('ROAS', ascending=False): the
\* higher ROAS first, NaN last, equal rows in the order of the frame (the sort
\* of a table this small keeps equal rows in order).
Precedes(data, j, i) ==
    IF IsNaN(data[j].ROAS) THEN IsNaN(data[i].ROAS) /\ j < i
    ELSE \/ IsNaN(data[i].ROAS)
         \/ Gt(data[j].ROAS, data[i].ROAS)
         \/ (~Gt(data[i].ROAS, data[j].ROAS) /\ j < i)

RankOf(data, i) == 1 + Cardinality({j \in 1..Len(data) : Precedes(data, j, i)})

\* The displayed ranked table, as the positions (index + 1) of the rows of
\* campaign_data from the top of the table down.
SortByROAS(data) ==
    [p \in 1..Len(data) |-> CHOOSE i \in 1..Len(data) : RankOf(data, i) = p]

Metrics == {"Spend", "RBConv", "RBCPO", "AOV", "ROAS", "CPA", "Revenue"}

\* Listwise deletion: only the rows complete in every metric.
JointObsListwise(data, a, b) ==
    {i \in 1..Len(data) : \A m \in Metrics : IsFinite(data[i][m])}

\* nancorr's mask: the rows where both metrics of the pair are finite.
JointObs(data, a, b) ==
    {i \in 1..Len(data) : IsFinite(data[i][a]) /\ IsFinite(data[i][b])}

\* The least common denominator of a column over the rows obs.
RECURSIVE CommonDen(_, _, _)
CommonDen(data, a, obs) ==
    IF obs = {} THEN 1
    ELSE LET i == CHOOSE x \in obs : TRUE
             rest == CommonDen(data, a, obs \ {i})
         IN  (rest * data[i][a].d) \div GCD(rest, data[i][a].d)

\* A column over the rows obs, multiplied by its common denominator: the
\* coefficient does not change when a column is scaled by a positive number.
Scaled(data, a, obs) ==
    LET den == CommonDen(data, a, obs)
    IN  [i \in obs |-> data[i][a].n * (den \div data[i][a].d)]

RECURSIVE SumProd(_, _, _)
SumProd(x, y, obs) ==
    IF obs = {} THEN 0
    ELSE LET i == CHOOSE e \in obs : TRUE
         IN  x[i] * y[i] + SumProd(x, y, obs \ {i})

\* nobs times the sum of the products of the deviations of x and y from
\* their means (covxy, and ssqdm_x when y is x).
CrossDev(x, y, obs) ==
    LET one == [i \in obs |-> 1]
    IN  Cardinality(obs) * SumProd(x, y, obs)
            - SumProd(x, one, obs) * SumProd(y, one, obs)

\* Pearson's coefficient covxy / sqrt(ssqdm_x * ssqdm_y) of one pair, as
\* [k |-> "root", n, d]: the number sign(n) * sqrt(|n| / d); NaN with no
\* joint observation (min_periods = 1) or a zero divisor.
Pearson(data, a, b) ==
    LET obs == JointObs(data, a, b)
        x   == Scaled(data, a, obs)
        y   == Scaled(data, b, obs)
        c   == CrossDev(x, y, obs)
        vx  == CrossDev(x, x, obs)
        vy  == CrossDev(y, y, obs)
        q   == Mul(Frac(c, vx), Frac(c, vy))
    IN  IF Cardinality(obs) < 1 \/ vx = 0 \/ vy = 0 THEN NaN
        ELSE [k |-> "root", n |-> (IF c < 0 THEN -1 ELSE 1) * q.n, d |-> q.d]

\* The places of the matrix, a place and its mirror image being one entry:
\* nancorr computes each pair once and stores it at [a, b] and at [b, a].
MetricPairs == {{a, b} : a \in Metrics, b \in Metrics}

\* campaign_data[[...]].corr(); corr.loc[a, b] is Corr(data)[{a, b}].
Corr(data) ==
    [p \in MetricPairs |->
        LET a == CHOOSE x \in p : TRUE
            b == CHOOSE y \in p : p = {a, y}
        IN  Pearson(data, a, b)]

\* ------------------------------------------------- insight extraction

\* idxmax keeping the last of several largest rows instead of the first.
IdxMaxLast(data, col) ==
    LET def == {i \in 1..Len(data) : ~IsNaN(data[i][col])}
        top == {i \in def : \A j \in def : ~Gt(data[j][col], data[i][col])}
    IN  IF def = {} THEN 0 ELSE CHOOSE i \in top : \A j \in top : j <= i

\* idxmax without skipna: a NaN row, which no row compares greater than, may
\* be returned.
IdxMaxAny(data, col) ==
    IF Len(data) = 0 THEN 0
    ELSE CHOOSE i \in 1..Len(data) :
            \A j \in 1..Len(data) : ~Gt(data[j][col], data[i][col])

\* Series.idxmax() as a position (index + 1): the first row holding the
\* largest non-NaN value; 0 when the column is empty or all NaN, where the
\* lookup raises.
IdxMax(data, col) ==
    LET def == {i \in 1..Len(data) : ~IsNaN(data[i][col])}
        top == {i \in def : \A j \in def : ~Gt(data[j][col], data[i][col])}
    IN  IF def = {} THEN 0 ELSE CHOOSE i \in top : \A j \in top : i <= j

\* Series.idxmin(), likewise.
IdxMin(data, col) ==
    LET def == {i \in 1..Len(data) : ~IsNaN(data[i][col])}
        low == {i \in def : \A j \in def : ~Gt(data[i][col], data[j][col])}
    IN  IF def = {} THEN 0 ELSE CHOOSE i \in low : \A j \in low : i <= j

\* The comparison with >= in place of >.
TrendLoose(first, last, up, down) == IF ~Gt(first, last) THEN up ELSE down

\* 'up' if last > first else 'down'
Trend(first, last, up, down) == IF Gt(last, first) THEN up ELSE down

\* ----------------------------------------------------------- forecast

\* How model.fit() can end: it raises on an empty series, and may raise on
\* any other (too few observations, no convergence).
FitOutcomes(series) ==
    IF Len(series) = 0 THEN {"InsufficientData"}
    ELSE {"ok", "InsufficientData", "NonConvergence"}

\* The point forecasts the fitted model may return.
ForecastSpace == {[i \in 1..ForecastSteps |-> Num(v)] : v \in {1, 2}}

\* ------------------------------------------------------- the render pass

NoInsights ==
    [top_tier4 |-> 0, worst_tier4 |-> 0, highest_spend_tier4 |-> 0,
     top_tier5 |-> 0, worst_tier5 |-> 0, highest_spend_tier5 |-> 0,
     best_week |-> 0, worst_week |-> 0,
     spend_trend |-> "", roas_trend |-> "", forecast_trend |-> ""]

Init ==
    /\ pc = "load"
    /\ csv \in CsvFiles
    /\ df = << >>
    /\ tier4_data = << >> /\ tier4_corr = << >> /\ tier4_table = << >>
    /\ tier5_data = << >> /\ tier5_corr = << >> /\ tier5_table = << >>
    /\ time_df = << >> /\ roas_series = << >> /\ forecast = << >>
    /\ insights = NoInsights
    /\ rendered = {}
    /\ error = ""

\* df = load_data()
LoadData ==
    /\ pc = "load"
    /\ df' = load_data(csv)
    /\ pc' = "tab1"
    /\ UNCHANGED <<csv, tier4_data, tier4_corr, tier4_table, tier5_data,
                   tier5_corr, tier5_table, time_df, roas_series, forecast,
                   insights, rendered, error>>

\* with tab1: tier4_data, tier4_corr = campaign_analysis(df, 'Tier 4')
Tier4Tab ==
    /\ pc = "tab1"
    /\ tier4_data' = CampaignData(df, "Tier4")
    /\ tier4_table' = SortByROAS(tier4_data')
    /\ tier4_corr' = Corr(tier4_data')
    /\ rendered' = rendered \cup {"tier4_table", "tier4_charts"}
    /\ pc' = "tab2"
    /\ UNCHANGED <<csv, df, tier5_data, tier5_corr, tier5_table, time_df,
                   roas_series, forecast, insights, error>>

\* with tab2: tier5_data, tier5_corr = campaign_analysis(df, 'Tier 5')
Tier5Tab ==
    /\ pc = "tab2"
    /\ tier5_data' = CampaignData(df, "Tier5")
    /\ tier5_table' = SortByROAS(tier5_data')
    /\ tier5_corr' = Corr(tier5_data')
    /\ rendered' = rendered \cup {"tier5_table", "tier5_charts"}
    /\ pc' = "tab3"
    /\ UNCHANGED <<csv, df, tier4_data, tier4_corr, tier4_table, time_df,
                   roas_series, forecast, insights, error>>

\* with tab3, to the weekly performance table.
TimeSeriesTab ==
    /\ pc = "tab3"
    /\ time_df' = GroupAgg(df, "Week")
    /\ rendered' = rendered \cup {"metrics_over_time", "weekly_table"}
    /\ pc' = "forecast"
    /\ UNCHANGED <<csv, df, tier4_data, tier4_corr, tier4_table, tier5_data,
                   tier5_corr, tier5_table, roas_series, forecast, insights,
                   error>>

\* with tab3, the ARIMA block: no handler surrounds the fit.
ForecastBlock ==
    /\ pc = "forecast"
    /\ roas_series' = [i \in 1..Len(time_df) |-> time_df[i].ROAS]
    /\ \E outcome \in FitOutcomes(roas_series') :
          IF outcome = "ok"
          THEN /\ forecast' \in ForecastSpace
               /\ rendered' = rendered \cup {"forecast_chart"}
               /\ pc' = "tier4_insights"
               /\ error' = error
          ELSE /\ forecast' = forecast
               /\ rendered' = rendered
               /\ pc' = "crashed"
               /\ error' = outcome
    /\ UNCHANGED <<csv, df, tier4_data, tier4_corr, tier4_table, tier5_data,
                   tier5_corr, tier5_table, time_df, insights>>

\* with tab4: Tier 4 Campaign Insights
Tier4Insights ==
    /\ pc = "tier4_insights"
    /\ IF IdxMax(tier4_data, "ROAS") = 0
       THEN /\ pc' = "crashed"
            /\ error' = "idxmax"
            /\ UNCHANGED <<insights, rendered>>
       ELSE /\ insights' = [insights EXCEPT
                              !.top_tier4 = IdxMax(tier4_data, "ROAS"),
                              !.worst_tier4 = IdxMin(tier4_data, "ROAS"),
                              !.highest_spend_tier4 = IdxMax(tier4_data, "Spend")]
            /\ rendered' = rendered \cup {"tier4_insights"}
            /\ pc' = "tier5_insights"
            /\ error' = error
    /\ UNCHANGED <<csv, df, tier4_data, tier4_corr, tier4_table, tier5_data,
                   tier5_corr, tier5_table, time_df, roas_series, forecast>>

\* with tab4: Tier 5 Campaign Insights
Tier5Insights ==
    /\ pc = "tier5_insights"
    /\ IF IdxMax(tier5_data, "ROAS") = 0
       THEN /\ pc' = "crashed"
            /\ error' = "idxmax"
            /\ UNCHANGED <<insights, rendered>>
       ELSE /\ insights' = [insights EXCEPT
                              !.top_tier5 = IdxMax(tier5_data, "ROAS"),
                              !.worst_tier5 = IdxMin(tier5_data, "ROAS"),
                              !.highest_spend_tier5 = IdxMax(tier5_data, "Spend")]
            /\ rendered' = rendered \cup {"tier5_insights"}
            /\ pc' = "time_insights"
            /\ error' = error
    /\ UNCHANGED <<csv, df, tier4_data, tier4_corr, tier4_table, tier5_data,
                   tier5_corr, tier5_table, time_df, roas_series, forecast>>

\* with tab4: Time Series Insights (best and worst week, trends, forecast label)
TimeInsights ==
    /\ pc = "time_insights"
    /\ IF IdxMax(time_df, "ROAS") = 0
       THEN /\ pc' = "crashed"
            /\ error' = "idxmax"
            /\ UNCHANGED <<insights, rendered>>
       ELSE /\ insights' = [insights EXCEPT
                              !.best_week = IdxMax(time_df, "ROAS"),
                              !.worst_week = IdxMin(time_df, "ROAS"),
                              !.spend_trend =
                                  Trend(time_df[1].Spend, time_df[Len(time_df)].Spend,
                                        "increasing", "decreasing"),
                              !.roas_trend =
                                  Trend(time_df[1].ROAS, time_df[Len(time_df)].ROAS,
                                        "improving", "declining"),
                              !.forecast_trend =
                                  Trend(roas_series[Len(roas_series)],
                                        forecast[Len(forecast)],
                                        "rising", "falling")]
            /\ rendered' = rendered \cup {"time_insights"}
            /\ pc' = "recommendations"
            /\ error' = error
    /\ UNCHANGED <<csv, df, tier4_data, tier4_corr, tier4_table, tier5_data,
                   tier5_corr, tier5_table, time_df, roas_series, forecast>>

\* with tab4: Recommendations (static text), the end of the script.
Recommendations ==
    /\ pc = "recommendations"
    /\ rendered' = rendered \cup {"recommendations"}
    /\ pc' = "done"
    /\ UNCHANGED <<csv, df, tier4_data, tier4_corr, tier4_table, tier5_data,
                   tier5_corr, tier5_table, time_df, roas_series, forecast,
                   insights, error>>

Next ==
    \/ LoadData
    \/ Tier4Tab
    \/ Tier5Tab
    \/ TimeSeriesTab
    \/ ForecastBlock
    \/ Tier4Insights
    \/ Tier5Insights
    \/ TimeInsights
    \/ Recommendations

Spec == Init /\ [][Next]_vars

\* ------------------------------------------------------------ claims

FitFailed == error \in {"InsufficientData", "NonConvergence"}

PassEnded == pc \in {"done", "crashed"}

InsightSections == {"tier4_insights", "tier5_insights", "time_insights"}

\* The aggregates that exist in the current state, each with its grouping column.
Tier4Done == pc \notin {"load", "tab1"}

Tier5Done == pc \notin {"load", "tab1", "tab2"}

WeekDone == pc \notin {"load", "tab1", "tab2", "tab3"}

Indices(data) == 1..Len(data)

\* Every tier and the weekly aggregate have a group with a defined
\* return-on-spend: the insight lookups have something to find.
InsightsHaveData ==
    /\ \E i \in Indices(tier4_data) : ~IsNaN(tier4_data[i].ROAS)
    /\ \E i \in Indices(tier5_data) : ~IsNaN(tier5_data[i].ROAS)
    /\ \E i \in Indices(time_df) : ~IsNaN(time_df[i].ROAS)

\* C1: when the forecast fit fails, the pass ends with the forecast marked
\* unavailable and with the Tier 4, Tier 5 and time-series insights rendered
\* (stated for data on which nothing but the fit can fail).
C1_ForecastFailureKeepsInsights ==
    (PassEnded /\ FitFailed /\ InsightsHaveData) =>
        /\ "forecast_unavailable" \in rendered
        /\ InsightSections \subseteq rendered

\* C2: a group of campaign_analysis whose summed conversions is 0 has a
\* missing costPerAcquisition (neither 0, nor an infinity).
C2_ZeroConversionsCpaMissing ==
    /\ Tier4Done =>
          \A i \in Indices(tier4_data) :
              tier4_data[i].RBConv = Num(0) => IsNaN(tier4_data[i].CPA)
    /\ Tier5Done =>
          \A i \in Indices(tier5_data) :
              tier5_data[i].RBConv = Num(0) => IsNaN(tier5_data[i].CPA)

TotalSpend(data) == AggSum(data, "Spend")

\* C3: for each grouping key the spend summed over the groups equals the
\* spend summed over all records of the dataset.
C3_SpendIsPartitioned ==
    /\ Tier4Done => TotalSpend(tier4_data) = TotalSpend(df)
    /\ Tier5Done => TotalSpend(tier5_data) = TotalSpend(df)
    /\ WeekDone => TotalSpend(time_df) = TotalSpend(df)

\* The picks of one tier are extremes of its groups.
ExtremaOf(data, top, worst, highest) ==
    /\ {top, worst, highest} \subseteq Indices(data)
    /\ ~IsNaN(data[top].ROAS)
    /\ ~IsNaN(data[worst].ROAS)
    /\ \A j \in Indices(data) :
          /\ ~Gt(data[j].ROAS, data[top].ROAS)
          /\ ~Gt(data[worst].ROAS, data[j].ROAS)
          /\ ~Gt(data[j].Spend, data[highest].Spend)

\* C4: the best (worst) group of a tier has a defined mean return-on-spend
\* that no group exceeds (undercuts), the highest-spend group a spend that no
\* group exceeds; a group with a missing return-on-spend is never picked.
C4_ExtremaAreExtreme ==
    /\ "tier4_insights" \in rendered =>
          ExtremaOf(tier4_data, insights.top_tier4, insights.worst_tier4,
                    insights.highest_spend_tier4)
    /\ "tier5_insights" \in rendered =>
          ExtremaOf(tier5_data, insights.top_tier5, insights.worst_tier5,
                    insights.highest_spend_tier5)

\* A tier whose picks were made while one of its groups has no return-on-spend
\* and another one a different spend.
C4_Witness ==
    /\ "tier4_insights" \in rendered
    /\ Len(tier4_data) = 2
    /\ IsNaN(tier4_data[1].ROAS)
    /\ insights.top_tier4 = 2
    /\ insights.highest_spend_tier4 = 1

\* C5: the trend labels are strict comparisons with the tie going to the
\* negative label, and the comparisons have their operands (no lookup raises).
C5_TrendLabelsStrict ==
    /\ pc = "time_insights" =>
          Len(time_df) > 0 /\ Len(roas_series) > 0 /\ Len(forecast) > 0
    /\ "time_insights" \in rendered =>
          LET first == time_df[1]
              last  == time_df[Len(time_df)]
          IN  /\ insights.spend_trend =
                    (IF Gt(last.Spend, first.Spend) THEN "increasing" ELSE "decreasing")
              /\ insights.roas_trend =
                    (IF Gt(last.ROAS, first.ROAS) THEN "improving" ELSE "declining")
              /\ insights.forecast_trend =
                    (IF Gt(forecast[ForecastSteps], roas_series[Len(roas_series)])
                     THEN "rising" ELSE "falling")
              /\ \A i \in 1..(Len(time_df) - 1) : time_df[i].key < time_df[i + 1].key

\* Two weeks of equal spend and equal return-on-spend, and a forecast that
\* ends where the history ends: all three labels are the negative ones.
C5_Witness ==
    /\ "time_insights" \in rendered
    /\ Len(time_df) = 2
    /\ time_df[1].Spend = time_df[2].Spend
    /\ time_df[1].ROAS = time_df[2].ROAS
    /\ forecast[ForecastSteps] = roas_series[2]
    /\ insights.spend_trend = "decreasing"
    /\ insights.roas_trend = "declining"
    /\ insights.forecast_trend = "falling"

\* No record of the group `key` has a defined value in column col.
NoneDefined(by, key, col) ==
    \A i \in Indices(df) : df[i][by] = key => IsNaN(df[i][col])

MissingStaysMissing(data, by) ==
    \A i \in Indices(data) :
        \A col \in {"Spend", "RBConv", "RBCPO", "AOV", "ROAS"} :
            NoneDefined(by, data[i].key, col) => IsNaN(data[i][col])

\* C6: an aggregated field of a group none of whose records has a defined
\* value for it is missing, not 0 (sums and means alike).
C6_AllMissingAggregatesMissing ==
    /\ Tier4Done => MissingStaysMissing(tier4_data, "Tier4")
    /\ Tier5Done => MissingStaysMissing(tier5_data, "Tier5")
    /\ WeekDone => MissingStaysMissing(time_df, "Week")

RevenueRule(data, by) ==
    \A i \in Indices(data) :
        IF NoneDefined(by, data[i].key, "Spend") \/ NoneDefined(by, data[i].key, "ROAS")
        THEN IsNaN(data[i].Revenue)
        ELSE data[i].Revenue = Mul(data[i].Spend, data[i].ROAS)

\* C7: revenue is summed spend times mean return-on-spend when both are
\* defined, and missing when every spend value or every return-on-spend value
\* of the group failed to parse.
C7_RevenueMissingWhenOperandMissing ==
    /\ Tier4Done => RevenueRule(tier4_data, "Tier4")
    /\ Tier5Done => RevenueRule(tier5_data, "Tier5")

\* Position of group i in the displayed ranked table.
TablePos(table, i) == CHOOSE p \in 1..Len(table) : table[p] = i

\* The groups tied with the pick on column col.
TiedWith(data, col, pick) == {i \in Indices(data) : data[i][col] = data[pick][col]}

FirstInTable(data, table, col, pick) ==
    \A i \in TiedWith(data, col, pick) : TablePos(table, pick) <= TablePos(table, i)

FirstInFrame(data, col, pick) ==
    \A i \in TiedWith(data, col, pick) : pick <= i

\* C8 as stated: among tied groups the pick (best, worst, highest spend) is
\* the one that stands first in the table sorted by return-on-spend descending.
C8_TieBreakInRankedOrder ==
    /\ "tier4_insights" \in rendered =>
          /\ FirstInTable(tier4_data, tier4_table, "ROAS", insights.top_tier4)
          /\ FirstInTable(tier4_data, tier4_table, "ROAS", insights.worst_tier4)
          /\ FirstInTable(tier4_data, tier4_table, "Spend", insights.highest_spend_tier4)
    /\ "tier5_insights" \in rendered =>
          /\ FirstInTable(tier5_data, tier5_table, "ROAS", insights.top_tier5)
          /\ FirstInTable(tier5_data, tier5_table, "ROAS", insights.worst_tier5)
          /\ FirstInTable(tier5_data, tier5_table, "Spend", insights.highest_spend_tier5)

\* C8 amended: among tied groups the pick is the one with the lowest index in
\* the aggregated frame (groups in ascending key order), whatever the ranked
\* table's order.
C8_TieBreakInFrameOrder ==
    /\ "tier4_insights" \in rendered =>
          /\ FirstInFrame(tier4_data, "ROAS", insights.top_tier4)
          /\ FirstInFrame(tier4_data, "ROAS", insights.worst_tier4)
          /\ FirstInFrame(tier4_data, "Spend", insights.highest_spend_tier4)
          /\ \A i \in 1..(Len(tier4_data) - 1) : tier4_data[i].key < tier4_data[i + 1].key
    /\ "tier5_insights" \in rendered =>
          /\ FirstInFrame(tier5_data, "ROAS", insights.top_tier5)
          /\ FirstInFrame(tier5_data, "ROAS", insights.worst_tier5)
          /\ FirstInFrame(tier5_data, "Spend", insights.highest_spend_tier5)
          /\ \A i \in 1..(Len(tier5_data) - 1) : tier5_data[i].key < tier5_data[i + 1].key

\* Two Tier 4 groups of equal spend, the second with the higher
\* return-on-spend: it heads the ranked table, the first is the pick.
C8_Witness ==
    /\ "tier4_insights" \in rendered
    /\ Len(tier4_data) = 2
    /\ tier4_data[1].Spend = tier4_data[2].Spend
    /\ Gt(tier4_data[2].ROAS, tier4_data[1].ROAS)
    /\ tier4_table = <<2, 1>>
    /\ insights.highest_spend_tier4 = 1

\* The groups in which both metrics of a pair are defined (finite).
BothDefined(data, a, b) ==
    {i \in Indices(data) : data[i][a].k = "num" /\ data[i][b].k = "num"}

\* Column a takes one value only over the groups obs.
Constant(data, a, obs) == \A i \in obs : \A j \in obs : data[i][a] = data[j][a]

\* The frame reduced to the groups obs, in order.
Restrict(data, obs) == SelectSeq(data, LAMBDA g : \E i \in obs : data[i] = g)

PairwiseComplete(data, corr) ==
    \A p \in MetricPairs :
        LET a   == CHOOSE x \in p : TRUE
            b   == CHOOSE y \in p : p = {a, y}
            obs == BothDefined(data, a, b)
            r   == corr[p]
        IN  /\ IsNaN(r) <=>
                  \/ Cardinality(obs) < 2
                  \/ Constant(data, a, obs)
                  \/ Constant(data, b, obs)
            /\ r = Pearson(Restrict(data, obs), a, b)
            /\ r.n * r.n <= r.d * r.d

\* C9: each coefficient that campaign_analysis returns is computed from
\* exactly the groups in which both metrics of the pair are defined; it is
\* missing exactly when these are fewer than two or one of the metrics does
\* not vary over them.
C9_CorrelationPairwiseComplete ==
    /\ pc = "tab2" => PairwiseComplete(tier4_data, tier4_corr)
    /\ pc = "tab3" => PairwiseComplete(tier5_data, tier5_corr)

\* A zero-conversion group (costPerAcquisition undefined) is left out of the
\* pairs of costPerAcquisition and still counts in the pair of conversions and
\* return-on-spend.
C9_Witness ==
    /\ pc = "tab2"
    /\ Len(tier4_data) = 2
    /\ tier4_data[2].RBConv = Num(0)
    /\ ~IsFinite(tier4_data[2].CPA)
    /\ IsFinite(tier4_data[1].CPA)
    /\ IsNaN(tier4_corr[{"CPA", "RBConv"}])
    /\ ~IsNaN(tier4_corr[{"RBConv", "ROAS"}])

\* C10: when the fit succeeds, no partial-data condition aborts the pass:
\* every insight section and the recommendations are rendered at its end.
C10_PartialDataCompletes ==
    (PassEnded /\ ~FitFailed) =>
        InsightSections \cup {"recommendations"} \subseteq rendered

====
